---- MODULE Spec2Model ----
(***************************************************************************)
(* Model of scripts/nhits_forecast.py: the revenue forecasting worker.     *)
(*                                                                         *)
(* One behaviour is one execution, either of the whole script (the import  *)
(* guard, the __main__ block and the call of forecast it makes) or of      *)
(* forecast alone, called by an importing module.                          *)
(*                                                                         *)
(* A date string is a record [m, d] (month and day of 2024), a revenue     *)
(* field is a record [k, v] whose kind k is "num" (a JSON number v),       *)
(* "missing" (the record has no revenue key), "null" (JSON null) or "str"  *)
(* (a JSON string that is no number).  A float is a record [k, n, d]: the  *)
(* reduced fraction n/d when k = "fin", and NaN or an infinity otherwise.  *)
(***************************************************************************)
EXTENDS Integers, Sequences, FiniteSets, TLC

\* Most records of any kind that historical_data holds before its daily history.
MaxPrefix == 1

\* Largest forecast horizon of a request.
MaxHorizon == 2

\* Threshold of the sufficiency gate: len(df) < 14.
MinObservations == 14

----------------------------------------------------------------------------
(* Floats *)

RECURSIVE GCD(_, _)
GCD(a, b) == IF b = 0 THEN a ELSE GCD(b, a % b)

Abs(x) == IF x < 0 THEN -x ELSE x

Fin(n) == [k |-> "fin", n |-> n, d |-> 1]

Frac(n, d) ==
    LET g == GCD(Abs(n), d)
    IN  [k |-> "fin", n |-> n \div g, d |-> d \div g]

NaN == [k |-> "nan", n |-> 0, d |-> 1]

Infinity == [k |-> "inf", n |-> 0, d |-> 1]

\* np.isfinite(p)
isfinite(p) == p.k = "fin"

\* p > 0 on floats: False for NaN.
GreaterThanZero(p) == (p.k = "fin" /\ p.n > 0) \/ p.k = "inf"

\* [x] * n
ListTimes(x, n) == [i \in 1..n |-> x]

----------------------------------------------------------------------------
(* Requests *)

DateStrings == {[m |-> 1, d |-> 1], [m |-> 1, d |-> 2], [m |-> 13, d |-> 40]}

RevenueFields ==
    {[k |-> "num", v |-> 0], [k |-> "num", v |-> 2], [k |-> "missing", v |-> 0],
     [k |-> "null", v |-> 0], [k |-> "str", v |-> 0]}

RawRecords == [date : DateStrings, revenue : RevenueFields]

\* A daily history: the first n days of January, the same revenue every day.
DailyHistory(n, v) ==
    [i \in 1..n |-> [date |-> [m |-> 1, d |-> i], revenue |-> [k |-> "num", v |-> v]]]

\* Lengths of the daily history that put the series below, at and above the
\* threshold whatever precedes it.
HistoryLengths == {0} \cup ((MinObservations - MaxPrefix - 1)..MinObservations)

Prefixes == UNION {[1..n -> RawRecords] : n \in 0..MaxPrefix}

HistoricalData ==
    {p \o DailyHistory(n, v) : p \in Prefixes, n \in HistoryLengths, v \in {0, 2}}

Horizons == 1..MaxHorizon

----------------------------------------------------------------------------
(* prepare_data *)

DaysInMonth(m) == IF m = 2 THEN 29 ELSE IF m \in {4, 6, 9, 11} THEN 30 ELSE 31

\* pd.to_datetime accepts the string.
Parseable(s) == s.m \in 1..12 /\ s.d \in 1..DaysInMonth(s.m)

RECURSIVE DaysBefore(_)
DaysBefore(m) == IF m = 1 THEN 0 ELSE DaysBefore(m - 1) + DaysInMonth(m - 1)

\* pd.to_datetime of a parseable string: the day of the year.
to_datetime(s) == DaysBefore(s.m) + s.d

\* .astype(float) accepts the field; a missing key or a null becomes NaN.
Castable(r) == r.k # "str"

astype_float(r) == IF r.k = "num" THEN Fin(r.v) ELSE NaN

RECURSIVE SortOrders(_)
SortOrders(rows) ==
    IF rows = {} THEN {<<>>}
    ELSE LET first == {r \in rows : \A q \in rows : r.ds <= q.ds}
         IN  UNION {{<<r>> \o t : t \in SortOrders(rows \ {r})} : r \in first}

\* A sort that leaves the rows as they came.
sort_values_unsorted(rows) == {rows}

\* df.sort_values('ds'): the default kind is quicksort, which is not stable,
\* so rows of equal ds come out in any order.
sort_values(rows) == SortOrders({rows[i] : i \in DOMAIN rows})

Raise == [ok |-> FALSE, df |-> <<>>]

\* The possible outcomes of prepare_data(data): it raises, or returns a frame
\* whose rows keep their index in data.
prepare_data(data) ==
    IF \/ data = <<>>
       \/ \E i \in DOMAIN data : ~Parseable(data[i].date)
       \/ \A i \in DOMAIN data : data[i].revenue.k = "missing"
       \/ \E i \in DOMAIN data : ~Castable(data[i].revenue)
    THEN {Raise}
    ELSE LET rows == [i \in DOMAIN data |->
                        [idx |-> i, ds |-> to_datetime(data[i].date),
                         y |-> astype_float(data[i].revenue)]]
         IN  {[ok |-> TRUE, df |-> s] : s \in sort_values(rows)}

RECURSIVE SumY(_)
SumY(s) == IF s = <<>> THEN 0 ELSE s[1].y.n + SumY(Tail(s))

\* df['y'].mean(): NaN is skipped, and the mean of nothing is NaN.
mean(df) ==
    LET vals == SelectSeq(df, LAMBDA r : r.y.k = "fin")
    IN  IF vals = <<>> THEN NaN ELSE Frac(SumY(vals), Len(vals))

----------------------------------------------------------------------------
(* forecast: the pieces of its body *)

\* The gate with <= for <.
InsufficientInclusive(df) == Len(df) <= MinObservations

\* Line 58: len(df) < 14.
Insufficient(df) == Len(df) < MinObservations

\* A mean forecast one value short.
HeuristicForecastShort(df, h) == ListTimes(mean(df), h - 1)

\* Lines 60-61: the mean forecast below the threshold.
HeuristicForecast(df, h) == ListTimes(mean(df), h)

RawValues == {NaN, Infinity, Fin(-1), Fin(0), Fin(3)}

\* nf.predict() of a model built with h = horizon: h rows, of any float.
RawPredictions(h) == [1..h -> RawValues]

\* The raw values passed through as they are.
ValidateUnchecked(raw, df, h) == raw

\* Lines 98-102: the first horizon raw values, each one kept when it is finite
\* and positive and replaced by df['y'].mean() otherwise.
Validate(raw, df, h) ==
    [i \in 1..(IF Len(raw) < h THEN Len(raw) ELSE h) |->
        IF isfinite(raw[i]) /\ GreaterThanZero(raw[i]) THEN raw[i] ELSE mean(df)]

\* A handler that answers zeros instead of the mean.
HandlerForecastZeros(df, h) == ListTimes(Fin(0), h)

\* Lines 110-111: the mean forecast of the exception handler.
HandlerForecast(df, h) == ListTimes(mean(df), h)

\* d.get('revenue', 0): a missing key reads as 0, any other field as itself.
get_revenue(r) == IF r.revenue.k = "missing" THEN [k |-> "num", v |-> 0] ELSE r.revenue

RECURSIVE SumRevenue(_)
SumRevenue(data) ==
    IF data = <<>> THEN 0 ELSE get_revenue(data[1]).v + SumRevenue(Tail(data))

\* sum(...) of line 115 raises TypeError when a field is no number: int + str,
\* int + None.
SumRaises(data) == \E i \in DOMAIN data : get_revenue(data[i]).k # "num"

\* Lines 114-117, when nothing raises.
LastResortForecast(data, h) ==
    IF data # <<>> THEN ListTimes(Frac(SumRevenue(data), Len(data)), h)
    ELSE ListTimes(Fin(0), h)

----------------------------------------------------------------------------
(* __main__: the pieces of its body *)

\* Lines 128 and 131: historical_data, [] when the key is absent.
get_historical_data(req) == IF req.hasHist THEN req.historical_data ELSE <<>>

\* The check of line 131 left out.
EmptyHistoryUnchecked(hist) == FALSE

\* Line 131.
EmptyHistory(hist) == hist = <<>>

\* json.dumps(obj) with the default allow_nan: a finite float is written as a
\* number, the others as the bare words NaN and Infinity.
json_dumps(obj) ==
    [success |-> obj.success, error |-> obj.error, predictions |-> obj.predictions,
     literals |-> [i \in DOMAIN obj.predictions |->
                     IF obj.predictions[i].k = "fin" THEN "number"
                     ELSE IF obj.predictions[i].k = "nan" THEN "NaN" ELSE "Infinity"]]

\* Lines 17-18 and 155-159.
error_result(e) == [success |-> FALSE, error |-> e, predictions |-> <<>>]

\* Lines 141-145.
result(preds) == [success |-> TRUE, error |-> "none", predictions |-> preds]

----------------------------------------------------------------------------
(* State *)

VARIABLES
    entry,        \* "worker": the script is run; "call": forecast is called
    imported,     \* neuralforecast and pandas are loaded
    request,      \* what standard input holds (worker)
    data,         \* forecast's argument data
    horizon,      \* forecast's argument horizon
    pc,           \* the position in the code
    df,           \* the frame of the last prepare_data that returned
    tiers,        \* the tiers entered so far, in order
    raisedIn,     \* the tiers that raised
    raw,          \* the model's raw predictions
    predictions,  \* forecast's return value
    outcome,      \* of forecast: "none", "returned" or "raised"
    error,        \* the exception that reached __main__'s handler
    stdout,       \* the texts printed to standard output
    exitCode      \* -1 while running

vars == <<entry, imported, request, data, horizon, pc, df, tiers, raisedIn, raw,
          predictions, outcome, error, stdout, exitCode>>

\* forecast called directly: standard input is not read.
NoRequest == [kind |-> "none", hasHist |-> FALSE, historical_data |-> <<>>, horizon |-> 1]

\* What standard input may hold: nothing, text that is no JSON, or a JSON
\* object with a horizon and with or without historical_data.
Requests ==
    {[kind |-> "empty", hasHist |-> FALSE, historical_data |-> <<>>, horizon |-> 1],
     [kind |-> "invalid", hasHist |-> FALSE, historical_data |-> <<>>, horizon |-> 1]}
    \cup {[kind |-> "json", hasHist |-> FALSE, historical_data |-> <<>>, horizon |-> h] :
            h \in Horizons}
    \cup {[kind |-> "json", hasHist |-> TRUE, historical_data |-> hd, horizon |-> h] :
            hd \in HistoricalData, h \in Horizons}

Init ==
    /\ entry \in {"worker", "call"}
    /\ imported = (entry = "call")
    /\ IF entry = "worker"
       THEN request \in Requests /\ data = <<>> /\ horizon = 1 /\ pc = "import"
       ELSE request = NoRequest /\ data \in HistoricalData /\ horizon \in Horizons
            /\ pc = "prepare"
    /\ df = <<>>
    /\ tiers = <<>>
    /\ raisedIn = {}
    /\ raw = <<>>
    /\ predictions = <<>>
    /\ outcome = "none"
    /\ error = "none"
    /\ stdout = <<>>
    /\ exitCode = -1

\* Where control goes when forecast is left.
AfterForecast(how) ==
    IF entry = "call" THEN "done" ELSE IF how = "returned" THEN "check" ELSE "except"

----------------------------------------------------------------------------
(* The import guard, lines 12-21 *)

ImportFails ==
    /\ pc = "import"
    /\ stdout' = Append(stdout, json_dumps(error_result("ImportError")))
    /\ exitCode' = 1
    /\ pc' = "exited"
    /\ UNCHANGED <<entry, imported, request, data, horizon, df, tiers, raisedIn, raw,
                   predictions, outcome, error>>

ImportSucceeds ==
    /\ pc = "import"
    /\ imported' = TRUE
    /\ pc' = "main"
    /\ UNCHANGED <<entry, request, data, horizon, df, tiers, raisedIn, raw,
                   predictions, outcome, error, stdout, exitCode>>

(* __main__, lines 120-135: read and check the request *)

MainRejects ==
    /\ pc = "main"
    /\ \/ request.kind = "empty" /\ error' = "ValueError"
       \/ request.kind = "invalid" /\ error' = "JSONDecodeError"
       \/ /\ request.kind = "json"
          /\ EmptyHistory(get_historical_data(request))
          /\ error' = "ValueError"
    /\ pc' = "except"
    /\ UNCHANGED <<entry, imported, request, data, horizon, df, tiers, raisedIn, raw,
                   predictions, outcome, stdout, exitCode>>

MainCalls ==
    /\ pc = "main"
    /\ request.kind = "json"
    /\ ~EmptyHistory(get_historical_data(request))
    /\ data' = get_historical_data(request)
    /\ horizon' = request.horizon
    /\ pc' = "prepare"
    /\ UNCHANGED <<entry, imported, request, df, tiers, raisedIn, raw, predictions, outcome,
                   error, stdout, exitCode>>

(* forecast, lines 54-117 *)

\* Line 56.
Normalize ==
    /\ pc = "prepare"
    /\ tiers' = Append(tiers, "normalize")
    /\ \E o \in prepare_data(data) :
          IF o.ok
          THEN df' = o.df /\ pc' = "gate" /\ UNCHANGED raisedIn
          ELSE raisedIn' = raisedIn \cup {"normalize"} /\ pc' = "handler"
               /\ UNCHANGED df
    /\ UNCHANGED <<entry, imported, request, data, horizon, raw, predictions, outcome,
                   error, stdout, exitCode>>

\* Line 58.
Gate ==
    /\ pc = "gate"
    /\ tiers' = Append(tiers, "gate")
    /\ pc' = IF Insufficient(df) THEN "heuristic" ELSE "model"
    /\ UNCHANGED <<entry, imported, request, data, horizon, df, raisedIn, raw, predictions,
                   outcome, error, stdout, exitCode>>

\* Lines 60-61.
Heuristic ==
    /\ pc = "heuristic"
    /\ tiers' = Append(tiers, "heuristic")
    /\ predictions' = HeuristicForecast(df, horizon)
    /\ outcome' = "returned"
    /\ pc' = AfterForecast("returned")
    /\ UNCHANGED <<entry, imported, request, data, horizon, df, raisedIn, raw, error,
                   stdout, exitCode>>

\* Lines 65-95: configuring, training or predicting raises.
ModelRaises ==
    /\ pc = "model"
    /\ tiers' = Append(tiers, "model")
    /\ raisedIn' = raisedIn \cup {"model"}
    /\ pc' = "handler"
    /\ UNCHANGED <<entry, imported, request, data, horizon, df, raw, predictions, outcome,
                   error, stdout, exitCode>>

\* Lines 65-95: the model is trained and predicts.
ModelPredicts ==
    /\ pc = "model"
    /\ tiers' = Append(tiers, "model")
    /\ raw' \in RawPredictions(horizon)
    /\ pc' = "validate"
    /\ UNCHANGED <<entry, imported, request, data, horizon, df, raisedIn, predictions,
                   outcome, error, stdout, exitCode>>

\* Lines 98-104.
ModelReturns ==
    /\ pc = "validate"
    /\ predictions' = Validate(raw, df, horizon)
    /\ outcome' = "returned"
    /\ pc' = AfterForecast("returned")
    /\ UNCHANGED <<entry, imported, request, data, horizon, df, tiers, raisedIn, raw,
                   error, stdout, exitCode>>

\* Lines 106-111: the handler of every exception of lines 55-104.
Handler ==
    /\ pc = "handler"
    /\ tiers' = Append(tiers, "heuristic")
    /\ \E o \in prepare_data(data) :
          IF o.ok
          THEN /\ df' = o.df
               /\ predictions' = HandlerForecast(o.df, horizon)
               /\ outcome' = "returned"
               /\ pc' = AfterForecast("returned")
               /\ UNCHANGED raisedIn
          ELSE /\ raisedIn' = raisedIn \cup {"heuristic"}
               /\ pc' = "last"
               /\ UNCHANGED <<df, predictions, outcome>>
    /\ UNCHANGED <<entry, imported, request, data, horizon, raw, error, stdout, exitCode>>

\* Lines 112-117: the handler of every exception of lines 109-111.
LastResort ==
    /\ pc = "last"
    /\ tiers' = Append(tiers, "last")
    /\ IF data # <<>> /\ SumRaises(data)
       THEN /\ raisedIn' = raisedIn \cup {"last"}
            /\ outcome' = "raised"
            /\ error' = IF entry = "worker" THEN "TypeError" ELSE error
            /\ pc' = AfterForecast("raised")
            /\ UNCHANGED predictions
       ELSE /\ predictions' = LastResortForecast(data, horizon)
            /\ outcome' = "returned"
            /\ pc' = AfterForecast("returned")
            /\ UNCHANGED <<raisedIn, error>>
    /\ UNCHANGED <<entry, imported, request, data, horizon, df, raw, stdout, exitCode>>

(* __main__, lines 137-166: answer *)

\* Lines 137-148.
MainAnswers ==
    /\ pc = "check"
    /\ IF predictions = <<>>
       THEN error' = "ValueError" /\ pc' = "except" /\ UNCHANGED <<stdout, exitCode>>
       ELSE /\ stdout' = Append(stdout, json_dumps(result(predictions)))
            /\ exitCode' = 0
            /\ pc' = "exited"
            /\ UNCHANGED error
    /\ UNCHANGED <<entry, imported, request, data, horizon, df, tiers, raisedIn, raw,
                   predictions, outcome>>

\* Lines 150-166.
MainFails ==
    /\ pc = "except"
    /\ stdout' = Append(stdout, json_dumps(error_result(error)))
    /\ exitCode' = 1
    /\ pc' = "exited"
    /\ UNCHANGED <<entry, imported, request, data, horizon, df, tiers, raisedIn, raw,
                   predictions, outcome, error>>

Next ==
    \/ ImportFails
    \/ ImportSucceeds
    \/ MainRejects
    \/ MainCalls
    \/ Normalize
    \/ Gate
    \/ Heuristic
    \/ ModelRaises
    \/ ModelPredicts
    \/ ModelReturns
    \/ Handler
    \/ LastResort
    \/ MainAnswers
    \/ MainFails

Spec == Init /\ [][Next]_vars

----------------------------------------------------------------------------
(* Notions the properties are stated in *)

Range(s) == {s[i] : i \in DOMAIN s}

\* Every record has a parseable date and a numeric revenue.
WellFormed(hd) ==
    \A i \in DOMAIN hd : Parseable(hd[i].date) /\ hd[i].revenue.k = "num"

\* The sum of the numeric revenue fields of the first n records.
RECURSIVE NumericTotal(_, _)
NumericTotal(hd, n) ==
    IF n = 0 THEN 0
    ELSE NumericTotal(hd, n - 1) + (IF hd[n].revenue.k = "num" THEN hd[n].revenue.v ELSE 0)

\* x is the mean of the revenue fields of hd, a field that is no number
\* counting as zero: x * Len(hd) = the total.
IsZeroFilledMeanOf(x, hd) ==
    x.k = "fin" /\ x.n * Len(hd) = NumericTotal(hd, Len(hd)) * x.d

\* The sum and the number of the finite values of the first n rows.
RECURSIVE FiniteTotal(_, _)
FiniteTotal(s, n) ==
    IF n = 0 THEN 0
    ELSE FiniteTotal(s, n - 1) + (IF s[n].y.k = "fin" THEN s[n].y.n ELSE 0)

FiniteCount(s) == Cardinality({i \in DOMAIN s : s[i].y.k = "fin"})

\* x is the mean of the series: of its finite values, NaN when it has none.
IsSeriesMeanOf(x, s) ==
    IF FiniteCount(s) = 0 THEN x.k = "nan"
    ELSE x.k = "fin" /\ x.n * FiniteCount(s) = FiniteTotal(s, Len(s)) * x.d

\* A finite float greater than 0.
FinitePositive(x) == x.k = "fin" /\ x.n > 0

\* The mean of the series is finite and greater than 0.
SeriesMeanPositive(s) == FiniteCount(s) > 0 /\ FiniteTotal(s, Len(s)) > 0

\* Calendar order of two date strings.
DateBefore(a, b) == a.m < b.m \/ (a.m = b.m /\ a.d < b.d)

\* The text is a JSON document: RFC 8259 has no NaN and no Infinity.
ValidJSON(text) == \A i \in DOMAIN text.literals : text.literals[i] = "number"

\* The script has exited.
Exited == entry = "worker" /\ pc = "exited"

\* The request is JSON and carries these records and this positive horizon.
Asked == request.kind = "json" /\ request.hasHist /\ request.horizon > 0

TierRank(t) ==
    CASE t = "normalize" -> 1 [] t = "gate" -> 2 [] t = "model" -> 3
      [] t = "heuristic" -> 4 [] t = "last" -> 5

----------------------------------------------------------------------------
(* Properties *)

\* C1: a run of the worker, its libraries loaded, on a non-empty well-formed
\* historical_data and a positive horizon prints one response, with
\* success = true and exactly horizon predictions.
C1_WellFormedSucceeds ==
    (Exited /\ imported /\ Asked /\ request.historical_data # <<>>
       /\ WellFormed(request.historical_data))
    => /\ Len(stdout) = 1
       /\ stdout[1].success
       /\ Len(stdout[1].predictions) = request.horizon
       /\ exitCode = 0

\* C1's case for the chain's first link: the model's answer is printed.
C1_Witness ==
    /\ Exited /\ Asked /\ WellFormed(request.historical_data)
    /\ "model" \in Range(tiers) /\ "model" \notin raisedIn
    /\ stdout[1].success /\ request.horizon > 1

\* C2 (as claimed): a run whose historical_data holds an unparseable date ends
\* with success = false, no predictions and exit code 1, and neither the
\* heuristic nor the last resort stands in for the failure.
C2_MalformedDateFails ==
    (Exited /\ imported /\ Asked
       /\ \E i \in DOMAIN request.historical_data :
             ~Parseable(request.historical_data[i].date))
    => /\ Len(stdout) = 1
       /\ ~stdout[1].success
       /\ stdout[1].predictions = <<>>
       /\ exitCode = 1
       /\ predictions = <<>>

\* C3: on a well-formed series of fewer than 14 observations the model is
\* never entered and forecast returns horizon values, each the mean of the
\* input revenues; from 14 observations on the model is entered.
C3_ShortSeriesMean ==
    (data # <<>> /\ WellFormed(data))
    => IF Len(data) < 14
       THEN /\ "model" \notin Range(tiers)
            /\ pc \notin {"model", "validate", "handler", "last"}
            /\ outcome # "raised"
            /\ outcome = "returned" =>
                 /\ Len(predictions) = horizon
                 /\ \A i \in DOMAIN predictions : IsZeroFilledMeanOf(predictions[i], data)
       ELSE outcome # "none" => "model" \in Range(tiers)

\* C3's case: a short unsorted series of differing revenues has been answered.
C3_Witness ==
    /\ outcome = "returned" /\ WellFormed(data) /\ Len(data) \in 2..13
    /\ horizon > 1
    /\ data[1].revenue.v # data[2].revenue.v
    /\ DateBefore(data[2].date, data[1].date)

\* C4: with historical_data absent or empty the run prints success = false
\* with no predictions, exits 1, and enters no tier.
C4_EmptyInputFails ==
    (entry = "worker" /\ request.kind = "json"
       /\ (~request.hasHist \/ request.historical_data = <<>>))
    => /\ tiers = <<>>
       /\ pc \in {"import", "main", "except", "exited"}
       /\ pc = "exited" =>
            /\ Len(stdout) = 1
            /\ ~stdout[1].success
            /\ stdout[1].predictions = <<>>
            /\ exitCode = 1

\* C4's case: the libraries loaded and an empty list was rejected.
C4_Witness ==
    /\ Exited /\ imported /\ request.kind = "json" /\ request.hasHist
    /\ request.historical_data = <<>>
    /\ stdout[1].error = "ValueError"

\* The model tier has returned forecast's value.
ModelReturned ==
    outcome = "returned" /\ "model" \in Range(tiers) /\ "model" \notin raisedIn

\* C5 (as claimed): every value returned by the model tier is finite and
\* greater than 0.
C5_ModelValuesPositive ==
    ModelReturned => \A i \in DOMAIN predictions : FinitePositive(predictions[i])

\* C5 (amended): the model tier returns horizon values; each is its raw value
\* when that is finite and greater than 0 and the series mean otherwise, so
\* all are finite and greater than 0 when the series mean is.
C5_ModelValuesValidated ==
    ModelReturned
    => /\ Len(predictions) = horizon
       /\ \A i \in DOMAIN predictions :
             IF FinitePositive(raw[i]) THEN predictions[i] = raw[i]
             ELSE IsSeriesMeanOf(predictions[i], df)
       /\ SeriesMeanPositive(df)
             => \A i \in DOMAIN predictions : FinitePositive(predictions[i])

\* C5's case: a raw value that is not finite was replaced by a positive mean.
C5_Witness ==
    /\ ModelReturned /\ Len(df) >= 14
    /\ raw[1] = NaN /\ FinitePositive(predictions[1])
    /\ FinitePositive(raw[horizon]) /\ horizon > 1

\* C6: on a well-formed series of at least 14 observations an exception of
\* the model is caught in forecast: forecast does not raise, it returns
\* horizon values, each the mean of the series, and the run prints them with
\* success = true.
C6_ModelFailureRecovered ==
    (WellFormed(data) /\ Len(data) >= 14 /\ "model" \in raisedIn)
    => /\ outcome # "raised"
       /\ pc \notin {"last", "except"}
       /\ outcome = "returned" =>
            /\ Len(predictions) = horizon
            /\ \A i \in DOMAIN predictions : IsZeroFilledMeanOf(predictions[i], data)
       /\ Exited =>
            /\ Len(stdout) = 1
            /\ stdout[1].success
            /\ stdout[1].predictions = predictions
            /\ exitCode = 0

\* C6's case: the model raised and the run has printed the mean forecast.
C6_Witness ==
    /\ Exited /\ WellFormed(data) /\ Len(data) >= 14 /\ "model" \in raisedIn
    /\ stdout[1].success /\ FinitePositive(predictions[1])

\* C7 (as claimed): forecast never raises, and a last resort that was entered
\* returns horizon copies of the mean of the revenue fields, a missing or
\* non-numeric field counting as zero, and horizon zeros for no records.
C7_ForecastNeverRaises ==
    /\ outcome # "raised"
    /\ ("last" \in Range(tiers) /\ outcome # "none") =>
          /\ Len(predictions) = horizon
          /\ \A i \in DOMAIN predictions :
                IF data = <<>> THEN predictions[i] = Fin(0)
                ELSE IsZeroFilledMeanOf(predictions[i], data)

\* C8 (as claimed): a run that has exited printed exactly one JSON document,
\* its exit code is 0 exactly when success = true, and a failure carries an
\* error message and no predictions.
C8_OneValidResponse ==
    Exited
    => /\ Len(stdout) = 1
       /\ ValidJSON(stdout[1])
       /\ (exitCode = 0) <=> stdout[1].success
       /\ ~stdout[1].success => (stdout[1].error # "none" /\ stdout[1].predictions = <<>>)

\* C9 (as claimed): the tiers are entered in the order normalize, gate, model,
\* heuristic, last resort, each at most once; the model only after the gate
\* found N >= 14, the heuristic only after the gate found N < 14 or the model
\* raised, the last resort only after the heuristic raised; and forecast is
\* left as soon as a tier has returned.
C9_TierOrder ==
    /\ \A i, j \in DOMAIN tiers : i < j => TierRank(tiers[i]) < TierRank(tiers[j])
    /\ "model" \in Range(tiers) => ("gate" \in Range(tiers) /\ Len(df) >= 14)
    /\ "heuristic" \in Range(tiers) =>
          \/ "gate" \in Range(tiers) /\ Len(df) < 14
          \/ "model" \in raisedIn
    /\ "last" \in Range(tiers) => "heuristic" \in raisedIn
    /\ outcome = "returned" => pc \in {"done", "check", "except", "exited"}

\* The frame holds every record of data once, as its date and its revenue.
IsPermutationOfInput ==
    /\ Len(df) = Len(data)
    /\ {df[i].idx : i \in DOMAIN df} = DOMAIN data
    /\ \A i \in DOMAIN df :
          /\ df[i].y = Fin(data[df[i].idx].revenue.v)
          /\ \A j \in DOMAIN df :
                (df[i].ds < df[j].ds) <=>
                   DateBefore(data[df[i].idx].date, data[df[j].idx].date)

NonDecreasing ==
    \A i, j \in DOMAIN df :
       i < j => ~DateBefore(data[df[j].idx].date, data[df[i].idx].date)

====
